---- MODULE Spec2Model ----
(***************************************************************************)
(* DeepSeaGuard Insight Engine: the real-time distribution pipeline of     *)
(* app/main.py.                                                            *)
(*                                                                         *)
(*   ConnectionManager   the subscriber registry: a list of WebSockets     *)
(*                       guarded by one asyncio.Lock                       *)
(*   websocket_endpoint  one handler task per subscriber connection        *)
(*   monitor_telemetry   the ingestion loop (upstream feed -> broadcast)   *)
(*   lifespan            startup / shutdown of the application             *)
(*                                                                         *)
(* Tasks are asyncio tasks: a step of the model is the code a task runs    *)
(* between two awaits.  Task 0 is monitor_telemetry and task c (c >= 1) is *)
(* the websocket_endpoint handler of WebSocket c under Spec; under SpecApi *)
(* every task is a caller of the ConnectionManager methods.                *)
(*                                                                         *)
(* A WebSocket is the starlette object: client_state and application_state *)
(* move CONNECTING -> CONNECTED -> DISCONNECTED; accept() succeeds only    *)
(* from application_state CONNECTING, send_json() raises when              *)
(* application_state is not CONNECTED or when the transport fails.         *)
(***************************************************************************)
EXTENDS Integers, Sequences, FiniteSets, TLC

\* ---------------------------------------------------------------- bounds
\* Number of WebSocket objects (and of endpoint / caller tasks).
NConns == 2
\* Number of broadcast calls in one behaviour (message ids 1..MaxMsgs).
MaxMsgs == 2

\* Number of rows of table `alerts` (ids 10, 20, ...).
MaxAlerts == 4
\* Number of distinct timestamps (T1 < T2 < ...).
MaxTime == 3
\* Longest summary_modes list of a request.
MaxModes == 3
\* Number of fetch_insights calls made with one InsightParams object.
MaxCalls == 2

\* ------------------------------------------------------------- constants
\* reconnect_delay of monitor_telemetry, in seconds.
ReconnectDelay == 5
\* fetch_insights: bounds of limit and timeseries_limit.
LimitMin == 1
LimitMax == 100
TsLimitMin == 10
TsLimitMax == 2000
\* InsightParams: defaults of limit, timeseries_limit and window_minutes.
DefaultLimit == 20
DefaultTsLimit == 30
DefaultWindow == 20

Conns == 1..NConns
Tasks == 0..NConns
Monitor == 0
NoTask == -1
NoConn == 0

VARIABLES
    active_connections, \* ConnectionManager.active_connections: list of WebSockets
    lock,               \* ConnectionManager._lock: the task holding it, or NoTask
    waiters,            \* asyncio.Lock._waiters: FIFO queue of tasks awaiting the lock
    client_state,       \* WebSocket.client_state, per WebSocket
    application_state,  \* WebSocket.application_state, per WebSocket
    received,           \* per WebSocket: the broadcast messages delivered to it, in order
    pc,                 \* per task: the await it is suspended at
    ws,                 \* per task: the websocket argument of the running call
    message,            \* per task: the message argument of the running broadcast
    idx,                \* per task: position of broadcast's for loop in active_connections
    disconnected,       \* per task: broadcast's local list `disconnected`
    cleanup,            \* per task: position of broadcast's clean-up loop (0: not in it)
    nmsgs,              \* number of broadcast calls made so far (the next message id - 1)
    role,               \* per task: "monitor", "endpoint" or "api"
    msg,                \* monitor_telemetry: type of the frame last read from the feed
    reconnect_delay,    \* monitor_telemetry: local reconnect_delay
    sleep_delay,        \* monitor_telemetry: argument of the asyncio.sleep in progress
    phase,              \* lifespan: "running", "shutdown" (code after yield ran), "stopped"
    tracked             \* history: WebSockets connected and not disconnected since

regVars  == <<active_connections, lock, waiters, tracked>>
sockVars == <<client_state, application_state, received>>
taskVars == <<pc, ws, message, idx, disconnected, cleanup>>
monVars  == <<msg, reconnect_delay, sleep_delay>>
mainVars == <<active_connections, lock, waiters, client_state, application_state,
              received, pc, ws, message, idx, disconnected, cleanup, nmsgs, role,
              msg, reconnect_delay, sleep_delay, phase, tracked>>

\* app/services/insights.py: one request served by fetch_insights.
VARIABLES
    alerts_table,       \* the rows of table `alerts`: id -> [auv_id, type, started_at]
    insight_params,     \* the caller's InsightParams object
    given,              \* history: the field values of insight_params at the first call
    ipc,                \* fetch_insights: the await it is suspended at
    modes,              \* fetch_insights: local list `modes`
    params,             \* fetch_insights: local dict `params` (bind parameters)
    filters,            \* fetch_insights: local list `filters`
    rows,               \* fetch_insights: res.fetchall() of the listing (ids of the rows)
    out,                \* fetch_insights: the response built so far
    queries,            \* history: the queries executed, in order
    ncalls              \* number of fetch_insights calls made with insight_params

insVars == <<alerts_table, insight_params, given, ipc, modes, params, filters,
             rows, out, queries, ncalls>>

vars == <<mainVars, insVars>>

\* ---------------------------------------------------------------- helpers
Range(s) == {s[i] : i \in 1..Len(s)}
InSeq(x, s) == \E i \in 1..Len(s) : s[i] = x
Count(x, s) == Cardinality({i \in 1..Len(s) : s[i] = x})
FirstIndex(x, s) == CHOOSE i \in 1..Len(s) : s[i] = x /\ \A j \in 1..(i - 1) : s[j] # x

\* list.remove(x): drops the first occurrence of x.
ListRemove(s, x) ==
    LET k == FirstIndex(x, s)
    IN  SubSeq(s, 1, k - 1) \o SubSeq(s, k + 1, Len(s))

\* -------------------------------------------------------------- the lock
\* asyncio.Lock: acquire() takes a free lock at once and otherwise queues the
\* caller; release() passes the lock to the longest-waiting task.
LockAfterRelease == IF waiters = << >> THEN NoTask ELSE Head(waiters)
WaitersAfterRelease == IF waiters = << >> THEN << >> ELSE Tail(waiters)

\* Task t's pending acquire() has returned: it holds the lock and is not
\* queued for it (a task that awaits a lock it already holds stays queued).
Granted(t) == lock = t /\ ~InSeq(t, waiters)

\* ------------------------------------------------- where a call returns to
\* Top of websocket_endpoint's `while True`: websocket.receive_json() is
\* awaited; it raises RuntimeError at once unless application_state is
\* CONNECTED.
LoopTop(state) == IF state = "CONNECTED" THEN "receive" ELSE "except"

\* websocket_endpoint enters its receive loop after connect and ends after
\* disconnect; monitor_telemetry goes back to reading the feed after
\* check_for_alert; a caller of the API is idle again.
AfterConnect(t) == IF role[t] = "endpoint" THEN LoopTop(application_state'[ws[t]]) ELSE "idle"
AfterConnectRaised(t) == IF role[t] = "endpoint" THEN "done" ELSE "idle"
AfterDisconnect(t) == IF role[t] = "endpoint" THEN "done" ELSE "idle"
AfterBroadcast(t) == IF role[t] = "monitor" THEN "read" ELSE "idle"
WsAfterReturn(t) == IF role[t] = "endpoint" THEN ws[t] ELSE NoConn

\* A task reaches `async with self._lock` and the lock is held: it is queued
\* and suspended at `at`.
Enqueue(t, at) ==
    /\ lock # NoTask
    /\ waiters' = Append(waiters, t)
    /\ pc' = [pc EXCEPT ![t] = at]
    /\ UNCHANGED lock

\* ------------------------------------------------ ConnectionManager.connect
\* Variant of AcceptAllowed: accept() succeeds on any WebSocket.
AcceptAlways(c) == TRUE

\* await websocket.accept(): starlette accepts only from application_state
\* CONNECTING (a second accept, or one after close, raises RuntimeError).
AcceptAllowed(c) == application_state[c] = "CONNECTING"

\* self.active_connections.append(websocket)
ConnectAppend(conns, c) == Append(conns, c)

\* The body of connect's `async with self._lock`, and the release.
ConnectBody(t) ==
    /\ active_connections' = ConnectAppend(active_connections, ws[t])
    /\ tracked' = tracked \cup {ws[t]}
    /\ lock' = LockAfterRelease
    /\ waiters' = WaitersAfterRelease
    /\ pc' = [pc EXCEPT ![t] = AfterConnect(t)]
    /\ ws' = [ws EXCEPT ![t] = WsAfterReturn(t)]

\* accept() returned: `async with self._lock` is entered at once when the
\* lock is free, and queued for otherwise.
AcceptOk(t) ==
    /\ pc[t] = "accept"
    /\ AcceptAllowed(ws[t])
    /\ client_state' = [client_state EXCEPT ![ws[t]] = "CONNECTED"]
    /\ application_state' = [application_state EXCEPT ![ws[t]] = "CONNECTED"]
    /\ IF lock = NoTask
       THEN ConnectBody(t)
       ELSE Enqueue(t, "connect_lock") /\ UNCHANGED <<active_connections, tracked, ws>>
    /\ UNCHANGED <<received, message, idx, disconnected, cleanup, nmsgs, role, insVars,
                   monVars, phase>>

\* accept() raised (RuntimeError on a WebSocket not in CONNECTING, or the
\* transport failed during the handshake): connect propagates the exception
\* before touching the registry.
AcceptRaises(t) ==
    /\ pc[t] = "accept"
    /\ IF AcceptAllowed(ws[t])
       THEN /\ client_state' = [client_state EXCEPT ![ws[t]] = "CONNECTED"]
            /\ application_state' = [application_state EXCEPT ![ws[t]] = "CONNECTED"]
       ELSE UNCHANGED <<client_state, application_state>>
    /\ pc' = [pc EXCEPT ![t] = AfterConnectRaised(t)]
    /\ ws' = [ws EXCEPT ![t] = WsAfterReturn(t)]
    /\ UNCHANGED <<regVars, received, message, idx, disconnected, cleanup,
                   nmsgs, role, insVars, monVars, phase>>

\* The queued connect was passed the lock.
ConnectGranted(t) ==
    /\ pc[t] = "connect_lock"
    /\ Granted(t)
    /\ UNCHANGED <<sockVars, message, idx, disconnected, cleanup, nmsgs, role, insVars,
                   monVars, phase>>
    /\ ConnectBody(t)

\* --------------------------------------------- ConnectionManager.disconnect
\* Variant of DisconnectRemove: the first subscriber is removed, whichever it
\* is.
DisconnectRemoveHead(conns, c) == IF InSeq(c, conns) THEN Tail(conns) ELSE conns

\* if websocket in self.active_connections: self.active_connections.remove(websocket)
DisconnectRemove(conns, c) == IF InSeq(c, conns) THEN ListRemove(conns, c) ELSE conns

\* The body of disconnect(c)'s `async with self._lock`, and the release.
\* Called from broadcast's clean-up loop (cleanup[t] > 0) it returns into
\* that loop: the next disconnect is awaited, or broadcast's own `async with`
\* is left.
DisconnectBody(t, c) ==
    LET more == cleanup[t] > 0 /\ cleanup[t] < Len(disconnected[t])
        last == cleanup[t] > 0 /\ ~more
        w1 == WaitersAfterRelease
        l1 == LockAfterRelease
    IN
    /\ active_connections' = DisconnectRemove(active_connections, c)
    /\ tracked' = tracked \ {c}
    /\ lock' = IF more THEN (IF l1 = NoTask THEN t ELSE l1)
               ELSE IF last THEN (IF w1 = << >> THEN NoTask ELSE Head(w1))
               ELSE l1
    /\ waiters' = IF more THEN (IF l1 = NoTask THEN w1 ELSE Append(w1, t))
                  ELSE IF last THEN (IF w1 = << >> THEN << >> ELSE Tail(w1))
                  ELSE w1
    /\ pc' = [pc EXCEPT ![t] = IF more THEN "disconnect_lock"
                               ELSE IF last THEN AfterBroadcast(t)
                               ELSE AfterDisconnect(t)]
    /\ ws' = [ws EXCEPT ![t] = IF more THEN disconnected[t][cleanup[t] + 1]
                               ELSE WsAfterReturn(t)]
    /\ cleanup' = [cleanup EXCEPT ![t] = IF more THEN cleanup[t] + 1 ELSE 0]
    /\ disconnected' = [disconnected EXCEPT ![t] = IF more THEN disconnected[t] ELSE << >>]
    /\ idx' = [idx EXCEPT ![t] = IF more THEN idx[t] ELSE 0]
    /\ message' = [message EXCEPT ![t] = IF more THEN message[t] ELSE 0]

\* A task suspended at `from` calls manager.disconnect(c): the body runs at
\* once when the lock is free.
CallDisconnectFrom(t, from, c) ==
    /\ pc[t] = from
    /\ IF lock = NoTask
       THEN DisconnectBody(t, c)
       ELSE /\ Enqueue(t, "disconnect_lock")
            /\ ws' = [ws EXCEPT ![t] = c]
            /\ UNCHANGED <<active_connections, tracked, cleanup, disconnected, idx, message>>

\* The queued disconnect was passed the lock.
DisconnectGranted(t) ==
    /\ pc[t] = "disconnect_lock"
    /\ Granted(t)
    /\ DisconnectBody(t, ws[t])
    /\ UNCHANGED <<sockVars, nmsgs, role, insVars, monVars, phase>>

\* ---------------------------------------------- ConnectionManager.broadcast
\* if connection.client_state == WebSocketState.CONNECTED
ShouldSend(c) == client_state[c] = "CONNECTED"

\* send_json on a WebSocket whose application_state is not CONNECTED raises
\* RuntimeError before anything is awaited.
SendRaisesAtOnce(c) == application_state[c] # "CONNECTED"

\* Variant of BroadcastScan: the first failed send ends the loop (the try
\* encloses the loop instead of one send).
RECURSIVE BroadcastScanAbort(_, _, _)
BroadcastScanAbort(conns, i, d) ==
    IF i > Len(conns) \/ d # << >> THEN [idx |-> Len(conns) + 1, disconnected |-> d]
    ELSE IF ~ShouldSend(conns[i]) THEN BroadcastScanAbort(conns, i + 1, d)
    ELSE IF SendRaisesAtOnce(conns[i]) THEN BroadcastScanAbort(conns, i + 1, Append(d, conns[i]))
    ELSE [idx |-> i, disconnected |-> d]

\* The for loop of broadcast from position i on, up to the next await: a
\* connection not in state CONNECTED is passed over, one whose send_json
\* raises at once is appended to `disconnected`, and the loop stops at the
\* first connection whose send is awaited (or past the end of the list).
RECURSIVE BroadcastScan(_, _, _)
BroadcastScan(conns, i, d) ==
    IF i > Len(conns) THEN [idx |-> i, disconnected |-> d]
    ELSE IF ~ShouldSend(conns[i]) THEN BroadcastScan(conns, i + 1, d)
    ELSE IF SendRaisesAtOnce(conns[i]) THEN BroadcastScan(conns, i + 1, Append(d, conns[i]))
    ELSE [idx |-> i, disconnected |-> d]

\* broadcast(m), holding the lock, runs on from position i with the failures
\* d collected so far: it awaits the next send; or, the loop over, it
\* releases the lock and returns (nothing failed); or it awaits
\* self.disconnect(disconnected[0]), whose `async with self._lock` queues the
\* task for the lock that its broadcast holds.
BroadcastAdvance(t, m, i, d) ==
    LET r == BroadcastScan(active_connections, i, d) IN
    IF r.idx <= Len(active_connections)
    THEN /\ pc' = [pc EXCEPT ![t] = "send"]
         /\ idx' = [idx EXCEPT ![t] = r.idx]
         /\ disconnected' = [disconnected EXCEPT ![t] = r.disconnected]
         /\ message' = [message EXCEPT ![t] = m]
         /\ lock' = t
         /\ UNCHANGED <<waiters, cleanup, ws>>
    ELSE IF r.disconnected = << >>
    THEN /\ pc' = [pc EXCEPT ![t] = AfterBroadcast(t)]
         /\ idx' = [idx EXCEPT ![t] = 0]
         /\ disconnected' = [disconnected EXCEPT ![t] = << >>]
         /\ message' = [message EXCEPT ![t] = 0]
         /\ lock' = LockAfterRelease
         /\ waiters' = WaitersAfterRelease
         /\ UNCHANGED <<cleanup, ws>>
    ELSE /\ pc' = [pc EXCEPT ![t] = "disconnect_lock"]
         /\ ws' = [ws EXCEPT ![t] = r.disconnected[1]]
         /\ cleanup' = [cleanup EXCEPT ![t] = 1]
         /\ idx' = [idx EXCEPT ![t] = r.idx]
         /\ disconnected' = [disconnected EXCEPT ![t] = r.disconnected]
         /\ message' = [message EXCEPT ![t] = m]
         /\ lock' = t
         /\ waiters' = Append(waiters, t)

\* A broadcast entered without the lock being free.
BroadcastEntersUnlocked == TRUE

\* `async with self._lock` of broadcast is entered without waiting: the lock
\* is free.
BroadcastLockFree == lock = NoTask

\* A task suspended at `from` calls manager.broadcast(message): the call is
\* numbered in the order the calls are made; with the lock free,
\* disconnected = [] and the for loop starts at once.
CallBroadcastFrom(t, from) ==
    /\ pc[t] = from
    /\ nmsgs < MaxMsgs
    /\ nmsgs' = nmsgs + 1
    /\ IF BroadcastLockFree
       THEN BroadcastAdvance(t, nmsgs + 1, 1, << >>)
       ELSE /\ Enqueue(t, "broadcast_lock")
            /\ message' = [message EXCEPT ![t] = nmsgs + 1]
            /\ UNCHANGED <<idx, disconnected, cleanup, ws>>

\* The queued broadcast was passed the lock.
BroadcastGranted(t) ==
    /\ pc[t] = "broadcast_lock"
    /\ Granted(t)
    /\ BroadcastAdvance(t, message[t], 1, << >>)
    /\ UNCHANGED <<active_connections, tracked, sockVars, nmsgs, role, insVars, monVars, phase>>

\* await connection.send_json(message) returned.
SendOk(t) ==
    /\ pc[t] = "send"
    /\ idx[t] \in 1..Len(active_connections)
    /\ received' = [received EXCEPT ![active_connections[idx[t]]] = Append(@, message[t])]
    /\ BroadcastAdvance(t, message[t], idx[t] + 1, disconnected[t])
    /\ UNCHANGED <<active_connections, tracked, client_state, application_state,
                   nmsgs, role, insVars, monVars, phase>>

\* await connection.send_json(message) raised (the transport failed:
\* starlette sets application_state DISCONNECTED and raises
\* WebSocketDisconnect): except Exception appends the connection to
\* `disconnected` and the loop goes on.
SendRaises(t) ==
    /\ pc[t] = "send"
    /\ idx[t] \in 1..Len(active_connections)
    /\ application_state' = [application_state EXCEPT ![active_connections[idx[t]]] = "DISCONNECTED"]
    /\ BroadcastAdvance(t, message[t], idx[t] + 1,
                        Append(disconnected[t], active_connections[idx[t]]))
    /\ UNCHANGED <<active_connections, tracked, client_state, received,
                   nmsgs, role, insVars, monVars, phase>>

\* The steps of the ConnectionManager methods, for any task inside one.
ManagerStep(t) ==
    \/ AcceptOk(t)
    \/ AcceptRaises(t)
    \/ ConnectGranted(t)
    \/ DisconnectGranted(t)
    \/ BroadcastGranted(t)
    \/ SendOk(t)
    \/ SendRaises(t)

\* ------------------------------------------------------ websocket_endpoint
\* A client opens /ws/alert: the handler task of WebSocket t starts and
\* awaits manager.connect(websocket).
EndpointStart(t) ==
    /\ role[t] = "endpoint"
    /\ phase = "running"
    /\ pc[t] = "idle"
    /\ pc' = [pc EXCEPT ![t] = "accept"]
    /\ UNCHANGED <<regVars, sockVars, ws, message, idx, disconnected, cleanup,
                   nmsgs, role, insVars, monVars, phase>>

\* A text frame arrived: it decodes (kind "json": the echo reply is sent) or
\* json.JSONDecodeError is caught (kind "bad": the error reply is sent).
\* send_json raises RuntimeError at once unless application_state is CONNECTED.
ReplyPc(kind) == IF kind = "json" THEN "echo" ELSE "error_reply"

ReceiveText(t, kind) ==
    /\ pc[t] = "receive"
    /\ pc' = [pc EXCEPT ![t] = IF application_state[ws[t]] = "CONNECTED"
                               THEN ReplyPc(kind) ELSE "except"]
    /\ UNCHANGED <<regVars, sockVars, ws, message, idx, disconnected, cleanup,
                   nmsgs, role, insVars, monVars, phase>>

\* The peer's disconnect message arrived: starlette sets client_state
\* DISCONNECTED and receive_json raises WebSocketDisconnect; the handler
\* awaits manager.disconnect(websocket).
ReceiveDisconnect(t) ==
    /\ pc[t] = "receive"
    /\ client_state' = [client_state EXCEPT ![ws[t]] = "DISCONNECTED"]
    /\ CallDisconnectFrom(t, "receive", ws[t])
    /\ UNCHANGED <<application_state, received, nmsgs, role, insVars, monVars, phase>>

\* receive_json raised something else (a frame without text, say).
ReceiveError(t) ==
    /\ pc[t] = "receive"
    /\ pc' = [pc EXCEPT ![t] = "except"]
    /\ UNCHANGED <<regVars, sockVars, ws, message, idx, disconnected, cleanup,
                   nmsgs, role, insVars, monVars, phase>>

\* The awaited send_json of the echo or of the error reply returned.
ReplyOk(t) ==
    /\ pc[t] \in {"echo", "error_reply"}
    /\ pc' = [pc EXCEPT ![t] = LoopTop(application_state[ws[t]])]
    /\ UNCHANGED <<regVars, sockVars, ws, message, idx, disconnected, cleanup,
                   nmsgs, role, insVars, monVars, phase>>

\* The awaited send_json failed in the transport: WebSocketDisconnect, caught
\* by `except WebSocketDisconnect`.
ReplyRaises(t) ==
    /\ pc[t] \in {"echo", "error_reply"}
    /\ application_state' = [application_state EXCEPT ![ws[t]] = "DISCONNECTED"]
    /\ CallDisconnectFrom(t, pc[t], ws[t])
    /\ UNCHANGED <<client_state, received, nmsgs, role, insVars, monVars, phase>>

\* `except Exception`: close(code=1011) when client_state is CONNECTED, then
\* manager.disconnect.  close() sends websocket.close, which raises at once
\* when application_state is already DISCONNECTED: the exception leaves the
\* handler before manager.disconnect is reached.
EndpointExcept(t) ==
    /\ pc[t] = "except"
    /\ IF client_state[ws[t]] = "CONNECTED"
       THEN IF application_state[ws[t]] = "CONNECTED"
            THEN /\ application_state' = [application_state EXCEPT ![ws[t]] = "DISCONNECTED"]
                 /\ pc' = [pc EXCEPT ![t] = "close"]
                 /\ UNCHANGED <<regVars, ws, message, idx, disconnected, cleanup>>
            ELSE /\ pc' = [pc EXCEPT ![t] = "done"]
                 /\ UNCHANGED <<application_state, regVars, ws, message, idx,
                                disconnected, cleanup>>
       ELSE /\ CallDisconnectFrom(t, "except", ws[t])
            /\ UNCHANGED application_state
    /\ UNCHANGED <<client_state, received, nmsgs, role, insVars, monVars, phase>>

\* The awaited close() returned: manager.disconnect(websocket) is awaited.
CloseOk(t) ==
    /\ pc[t] = "close"
    /\ CallDisconnectFrom(t, "close", ws[t])
    /\ UNCHANGED <<sockVars, nmsgs, role, insVars, monVars, phase>>

\* The awaited close() failed in the transport: the exception leaves the
\* handler.
CloseRaises(t) ==
    /\ pc[t] = "close"
    /\ pc' = [pc EXCEPT ![t] = "done"]
    /\ UNCHANGED <<regVars, sockVars, ws, message, idx, disconnected, cleanup,
                   nmsgs, role, insVars, monVars, phase>>

EndpointStep(t) ==
    \/ EndpointStart(t)
    \/ \E kind \in {"json", "bad"} : ReceiveText(t, kind)
    \/ ReceiveDisconnect(t)
    \/ ReceiveError(t)
    \/ ReplyOk(t)
    \/ ReplyRaises(t)
    \/ EndpointExcept(t)
    \/ CloseOk(t)
    \/ CloseRaises(t)

\* ------------------------------------------------------- monitor_telemetry
\* Frames of the upstream feed, by what the loop body does with them:
\*   TEXT_ALERT  text, decodes, check_thresholds returns an alert
\*   TEXT_QUIET  text, decodes, check_thresholds returns nothing
\*   TEXT_BAD    text, json.loads raises JSONDecodeError
\*   BINARY      a frame of another type (neither TEXT, ERROR nor CLOSED)
\*   ERROR       WSMsgType.ERROR
\*   CLOSED      WSMsgType.CLOSED
\*   END         the async iterator is exhausted (the peer closed)
\*   RAISED      reading raised an exception
FrameKinds == {"TEXT_ALERT", "TEXT_QUIET", "TEXT_BAD", "BINARY", "ERROR", "CLOSED", "END", "RAISED"}

\* Variant of AfterFrame: the JSONDecodeError of a text frame is not caught
\* inside the loop and ends the connection.
AfterFrameBadEnds(kind) ==
    IF kind \in {"TEXT_QUIET", "BINARY"} THEN "read" ELSE "sleep"

\* Variant of AfterFrame: an ERROR frame is passed over like a binary one
\* (the break is missing).
AfterFrameErrorContinues(kind) ==
    IF kind \in {"TEXT_QUIET", "TEXT_BAD", "BINARY", "ERROR"} THEN "read" ELSE "sleep"

\* What the body of `async for msg in ws` does with a frame that raises no
\* alert: "read" awaits the next frame of the same connection, "sleep" leaves
\* the connection (break, end of iteration or an except clause) and awaits
\* asyncio.sleep(reconnect_delay).
AfterFrame(kind) ==
    IF kind \in {"TEXT_QUIET", "TEXT_BAD", "BINARY"} THEN "read" ELSE "sleep"

\* session.ws_connect succeeded.
WsConnectOk ==
    /\ pc[Monitor] = "ws_connect"
    /\ pc' = [pc EXCEPT ![Monitor] = "read"]
    /\ UNCHANGED <<regVars, sockVars, ws, message, idx, disconnected, cleanup,
                   nmsgs, role, insVars, monVars, phase>>

\* Variant of AfterError: the exception ends the task.
AfterErrorStops == "failed"

\* What an except clause of the loop leads to: the handler prints, and the
\* code after the try awaits asyncio.sleep(reconnect_delay).
AfterError == "sleep"

\* session.ws_connect raised (aiohttp.ClientError or another Exception).
WsConnectFails ==
    /\ pc[Monitor] = "ws_connect"
    /\ pc' = [pc EXCEPT ![Monitor] = AfterError]
    /\ sleep_delay' = reconnect_delay
    /\ UNCHANGED <<regVars, sockVars, ws, message, idx, disconnected, cleanup,
                   nmsgs, role, insVars, msg, reconnect_delay, phase>>

\* A text frame that decodes and for which check_thresholds returns an alert:
\* check_for_alert awaits manager.broadcast.
ReadAlert ==
    /\ msg' = "TEXT_ALERT"
    /\ CallBroadcastFrom(Monitor, "read")
    /\ UNCHANGED <<active_connections, tracked, sockVars, role, insVars, reconnect_delay,
                   sleep_delay, phase>>

\* Any other frame.
ReadFrame(kind) ==
    /\ pc[Monitor] = "read"
    /\ msg' = kind
    /\ pc' = [pc EXCEPT ![Monitor] = AfterFrame(kind)]
    /\ sleep_delay' = IF AfterFrame(kind) = "sleep" THEN reconnect_delay ELSE sleep_delay
    /\ UNCHANGED <<regVars, sockVars, ws, message, idx, disconnected, cleanup,
                   nmsgs, role, insVars, reconnect_delay, phase>>

\* asyncio.sleep(reconnect_delay) returned: `while True` starts over.
SleepDone ==
    /\ pc[Monitor] = "sleep"
    /\ pc' = [pc EXCEPT ![Monitor] = "ws_connect"]
    /\ sleep_delay' = 0
    /\ UNCHANGED <<regVars, sockVars, ws, message, idx, disconnected, cleanup,
                   nmsgs, role, insVars, msg, reconnect_delay, phase>>

MonitorStep ==
    \/ WsConnectOk
    \/ WsConnectFails
    \/ ReadAlert
    \/ \E kind \in FrameKinds \ {"TEXT_ALERT"} : ReadFrame(kind)
    \/ SleepDone

\* ---------------------------------------------------------------- lifespan
\* The code after `yield`: it prints and does nothing else; the task made by
\* asyncio.create_task(monitor_telemetry()) is neither kept nor cancelled.
Shutdown ==
    /\ phase = "running"
    /\ phase' = "shutdown"
    /\ UNCHANGED <<regVars, sockVars, taskVars, nmsgs, role, insVars, monVars>>

\* The process ends: the runner of the event loop cancels the tasks that are
\* left (CancelledError is no Exception, so no except clause of the loop
\* catches it, and every `async with` releases what it holds).
Teardown ==
    /\ phase = "shutdown"
    /\ phase' = "stopped"
    /\ pc' = [t \in Tasks |-> "cancelled"]
    /\ lock' = NoTask
    /\ waiters' = << >>
    /\ UNCHANGED <<active_connections, tracked, sockVars, ws, message, idx,
                   disconnected, cleanup, nmsgs, role, insVars, monVars>>

\* ------------------------------------------ callers of the ConnectionManager
ApiConnect(t, c) ==
    /\ pc[t] = "idle"
    /\ pc' = [pc EXCEPT ![t] = "accept"]
    /\ ws' = [ws EXCEPT ![t] = c]
    /\ UNCHANGED <<regVars, sockVars, message, idx, disconnected, cleanup,
                   nmsgs, role, insVars, monVars, phase>>

ApiDisconnect(t, c) ==
    /\ CallDisconnectFrom(t, "idle", c)
    /\ UNCHANGED <<sockVars, nmsgs, role, insVars, monVars, phase>>

ApiBroadcast(t) ==
    /\ CallBroadcastFrom(t, "idle")
    /\ UNCHANGED <<active_connections, tracked, sockVars, role, insVars, monVars, phase>>

\* The peer of WebSocket c went away and its disconnect message was received
\* (websocket.receive_json in the connection's handler): client_state
\* DISCONNECTED.
ClientGone(c) ==
    /\ client_state[c] = "CONNECTED"
    /\ client_state' = [client_state EXCEPT ![c] = "DISCONNECTED"]
    /\ UNCHANGED <<regVars, application_state, received, taskVars, nmsgs, role, insVars,
                   monVars, phase>>

\* ======================================================================
\* app/services/insights.py: fetch_insights
\* ======================================================================
\* Python strings that fetch_insights builds or parses are sequences of
\* tokens: the ISO text of a timestamp, the decimal text of an integer, the
\* separator "|" and text that is neither.  None, "" and [] are all falsy in
\* the tests the code makes (`if insight_params.cursor:`), and are the empty
\* string / empty sequence / 0 here.
IsoTok(t) == [k |-> "iso", v |-> t]
IntTok(n) == [k |-> "int", v |-> n]
SepTok == [k |-> "sep", v |-> 0]
JunkTok == [k |-> "junk", v |-> 0]

\* Timestamps (T1 < T2 < ...) and the rows of table `alerts`.
Times == 1..MaxTime
AlertIds == {10 * i : i \in 1..MaxAlerts}
AuvOf(id) == IF (id \div 10) % 2 = 1 THEN "auv-1" ELSE "auv-2"
TypeOf(id) == IF id <= 20 THEN "environmental" ELSE "dead_auv"

\* SUMMARY_MODES_ALLOWED
SUMMARY_MODES_ALLOWED == {"timeseries", "stats"}

\* The columns of the listing's SELECT: a Row has these attributes only.
SelectColumns == {"auv_id", "type", "severity", "status", "message", "started_at"}

\* Variant of RowHas: the SELECT list also names column id.
RowHasWithId(col) == col \in SelectColumns \cup {"id"}

\* r.<col> on a Row of the listing: AttributeError unless the column was
\* selected.
RowHas(col) == col \in SelectColumns

\* max(lo, min(x, hi))
Min2(a, b) == IF a < b THEN a ELSE b
Max2(a, b) == IF a > b THEN a ELSE b

\* Variant of ClampLimit: the lower bound is not applied.
ClampLimitNoFloor(x) == Min2(x, LimitMax)

\* insight_params.limit = max(1, min(insight_params.limit, 100))
ClampLimit(x) == Max2(LimitMin, Min2(x, LimitMax))

\* insight_params.timeseries_limit = max(10, min(insight_params.timeseries_limit, 2000))
ClampTsLimit(x) == Max2(TsLimitMin, Min2(x, TsLimitMax))

\* for m in insight_params.summary_modes: if m not in modes: modes.append(m)
RECURSIVE Dedupe(_, _)
Dedupe(ms, acc) ==
    IF ms = << >> THEN acc
    ELSE Dedupe(Tail(ms), IF InSeq(Head(ms), acc) THEN acc ELSE Append(acc, Head(ms)))

\* Variant of ActiveModes: the allowed-mode filter is left out.
ActiveModesUnfiltered(summary, summary_modes) ==
    Dedupe(summary_modes, IF summary /\ summary_modes = << >> THEN <<"timeseries">> ELSE << >>)

\* The active modes: "timeseries" when summary is set and no mode list is
\* given, then the given modes in first-seen order, then only allowed ones.
ActiveModes(summary, summary_modes) ==
    SelectSeq(Dedupe(summary_modes,
                     IF summary /\ summary_modes = << >> THEN <<"timeseries">> ELSE << >>),
              LAMBDA m : m \in SUMMARY_MODES_ALLOWED)

\* str.split("|", 1): the text before the first separator and the text after
\* it, or the whole text when there is no separator.
SepIndex(s) == CHOOSE i \in 1..Len(s) : s[i] = SepTok /\ \A j \in 1..(i - 1) : s[j] # SepTok
SplitOnce(s) ==
    IF \E i \in 1..Len(s) : s[i] = SepTok
    THEN <<SubSeq(s, 1, SepIndex(s) - 1), SubSeq(s, SepIndex(s) + 1, Len(s))>>
    ELSE <<s>>

\* datetime.fromisoformat(text) / int(text) return a value for the text of
\* one timestamp / one integer and raise ValueError otherwise.
IsIsoText(s) == Len(s) = 1 /\ s[1].k = "iso"
IsIntText(s) == Len(s) = 1 /\ s[1].k = "int"

\* The try block of the cursor runs to its end: the split gives two parts,
\* the first is a timestamp and the second an integer.
CursorParses(cursor) ==
    /\ Len(SplitOnce(cursor)) = 2
    /\ IsIsoText(SplitOnce(cursor)[1])
    /\ IsIntText(SplitOnce(cursor)[2])

\* c_dt and c_id_int of a cursor that parses (0 where the part is no value).
CursorTime(cursor) == IF IsIsoText(SplitOnce(cursor)[1]) THEN SplitOnce(cursor)[1][1].v ELSE 0
CursorId(cursor) == IF IsIntText(SplitOnce(cursor)[2]) THEN SplitOnce(cursor)[2][1].v ELSE 0

\* f"{last.started_at.isoformat()}|{last.id}"
EncodeCursor(started_at, id) == <<IsoTok(started_at), SepTok, IntTok(id)>>

\* `filters`: the predicates of the WHERE clause, in the order the code
\* appends them; the cursor's predicate only when its try block ran to the end.
BuildFilters(ip) ==
    (IF ip.auv_id # "" THEN <<"auv_id">> ELSE << >>)
    \o (IF ip.type # "" THEN <<"type">> ELSE << >>)
    \o (IF ip.since # 0 THEN <<"since">> ELSE << >>)
    \o (IF ip.cursor # << >> /\ CursorParses(ip.cursor) THEN <<"cursor">> ELSE << >>)

\* `params`: the bind parameters of the listing ("" / 0 where a key is not set).
BuildParams(ip) ==
    [limit |-> ip.limit,
     auv_id |-> ip.auv_id,
     type |-> ip.type,
     since |-> ip.since,
     cursor_started_at |-> IF ip.cursor # << >> /\ CursorParses(ip.cursor)
                           THEN CursorTime(ip.cursor) ELSE 0,
     cursor_id |-> IF ip.cursor # << >> /\ CursorParses(ip.cursor)
                   THEN CursorId(ip.cursor) ELSE 0]

\* One predicate of the WHERE clause on the alert with this id.
FilterHolds(f, table, id, p) ==
    CASE f = "auv_id" -> table[id].auv_id = p.auv_id
      [] f = "type" -> table[id].type = p.type
      [] f = "since" -> table[id].started_at > p.since
      [] f = "cursor" -> \/ table[id].started_at < p.cursor_started_at
                         \/ /\ table[id].started_at = p.cursor_started_at
                            /\ id < p.cursor_id

\* WHERE f1 AND f2 AND ...
Matching(table, fs, p) ==
    {id \in DOMAIN table : \A i \in 1..Len(fs) : FilterHolds(fs[i], table, id, p)}

\* ORDER BY started_at DESC, id DESC
Before(table, x, y) ==
    \/ table[x].started_at > table[y].started_at
    \/ table[x].started_at = table[y].started_at /\ x > y
RECURSIVE OrderDesc(_, _)
OrderDesc(table, S) ==
    IF S = {} THEN << >>
    ELSE LET first == CHOOSE x \in S : \A y \in S \ {x} : Before(table, x, y)
         IN <<first>> \o OrderDesc(table, S \ {first})

\* The listing query: WHERE ... ORDER BY ... LIMIT :limit
Listing(table, fs, p) ==
    SubSeq(OrderDesc(table, Matching(table, fs, p)), 1,
           Min2(p.limit, Cardinality(Matching(table, fs, p))))

\* The dict appended to `alerts` for one row (severity, status and message
\* are copied from the row like auv_id and type, and are left out here).
AlertDict(table, id) ==
    [auv_id |-> table[id].auv_id,
     type |-> table[id].type,
     started_at |-> <<IsoTok(table[id].started_at)>>]

\* The response before anything is put into it.
NoOut ==
    [alerts |-> << >>, next_cursor |-> << >>, has_summaries |-> FALSE,
     summaries |-> {}, ts_count |-> 0, total_alerts |-> 0]

\* Rows of table `telemetry` of one vehicle inside the window.
TelemetryRows == 12

\* After the listing, up to the next await: "timeseries" without auv_id only
\* sets timeseries_error.
TimeseriesError(ms, auv) == InSeq("timeseries", ms) /\ auv = ""
AfterListing(ms, auv) ==
    IF InSeq("timeseries", ms) /\ auv # "" THEN "timeseries"
    ELSE IF InSeq("stats", ms) THEN "stats"
    ELSE "returned"
AfterTimeseries(ms) == IF InSeq("stats", ms) THEN "stats" ELSE "returned"

\* Lines 61-95 of a call: the clamps are assigned to the caller's object, the
\* modes, filters and bind parameters are derived, and the listing is awaited.
EnterFetchInsights ==
    /\ insight_params' = [insight_params EXCEPT
                              !.limit = ClampLimit(@),
                              !.timeseries_limit = ClampTsLimit(@)]
    /\ modes' = ActiveModes(insight_params.summary, insight_params.summary_modes)
    /\ filters' = BuildFilters(insight_params)
    /\ params' = BuildParams(insight_params')
    /\ rows' = << >>
    /\ out' = NoOut
    /\ queries' = << >>
    /\ ipc' = "listing"
    /\ ncalls' = ncalls + 1
    /\ UNCHANGED <<alerts_table, mainVars>>

\* fetch_insights(session_factory, insight_params) is called.
FetchInsights ==
    /\ ipc = "idle"
    /\ ncalls = 0
    /\ given' = insight_params
    /\ EnterFetchInsights

\* The caller calls fetch_insights again with the same InsightParams object.
FetchInsightsAgain ==
    /\ ipc \in {"returned", "raised"}
    /\ ncalls < MaxCalls
    /\ UNCHANGED given
    /\ EnterFetchInsights

\* The listing query returned: `alerts` is built; a full page reads
\* last.started_at and last.id for next_cursor, and a Row has no attribute id
\* (AttributeError leaves fetch_insights); otherwise the function returns or
\* goes on to the summaries.
ListingDone ==
    /\ ipc = "listing"
    /\ LET rs == Listing(alerts_table, filters, params)
           full == rs # << >> /\ Len(rs) = insight_params.limit
       IN /\ rows' = rs
          /\ queries' = Append(queries, [table |-> "alerts", limit |-> params.limit])
          /\ IF full /\ ~RowHas("id")
             THEN /\ ipc' = "raised"
                  /\ out' = NoOut
             ELSE /\ ipc' = AfterListing(modes, insight_params.auv_id)
                  /\ out' = [NoOut EXCEPT
                        !.alerts = [i \in 1..Len(rs) |-> AlertDict(alerts_table, rs[i])],
                        !.next_cursor =
                            IF full
                            THEN EncodeCursor(alerts_table[rs[Len(rs)]].started_at, rs[Len(rs)])
                            ELSE << >>,
                        !.summaries =
                            IF TimeseriesError(modes, insight_params.auv_id)
                            THEN {"timeseries_error"} ELSE {},
                        !.has_summaries =
                            modes # << >>
                            /\ AfterListing(modes, insight_params.auv_id) = "returned"]
    /\ UNCHANGED <<alerts_table, insight_params, given, modes, params, filters,
                   ncalls, mainVars>>

\* The telemetry query returned: summaries["timeseries"] is set.
TimeseriesDone ==
    /\ ipc = "timeseries"
    /\ queries' = Append(queries, [table |-> "telemetry",
                                   limit |-> insight_params.timeseries_limit])
    /\ out' = [out EXCEPT
                  !.summaries = @ \cup {"timeseries"},
                  !.ts_count = Min2(insight_params.timeseries_limit, TelemetryRows),
                  !.has_summaries = AfterTimeseries(modes) = "returned"]
    /\ ipc' = AfterTimeseries(modes)
    /\ UNCHANGED <<alerts_table, insight_params, given, modes, params, filters,
                   rows, ncalls, mainVars>>

\* The two stats queries (no LIMIT: 0) returned: summaries["stats"] is set
\* from the alerts matching the auv_id / type filters, and the function
\* returns.
StatsDone ==
    /\ ipc = "stats"
    /\ queries' = queries \o <<[table |-> "alerts", limit |-> 0],
                               [table |-> "alerts", limit |-> 0]>>
    /\ out' = [out EXCEPT
                  !.summaries = @ \cup {"stats"},
                  !.total_alerts =
                      Cardinality(Matching(alerts_table,
                                           SelectSeq(filters, LAMBDA f : f \in {"auv_id", "type"}),
                                           params)),
                  !.has_summaries = TRUE]
    /\ ipc' = "returned"
    /\ UNCHANGED <<alerts_table, insight_params, given, modes, params, filters,
                   rows, ncalls, mainVars>>

\* ------------------------------------------------ the inputs of a request
\* The InsightParams of a request; window_minutes and timeseries_fields keep
\* the dataclass defaults.
ParamsOf(auv, lim, summary, summary_modes, ts_lim, since, cursor) ==
    [auv_id |-> auv, type |-> "", limit |-> lim, summary |-> summary,
     summary_modes |-> summary_modes, window_minutes |-> DefaultWindow,
     timeseries_limit |-> ts_lim, timeseries_fields |-> << >>,
     since |-> since, cursor |-> cursor]

\* InsightParams(): every field at its default.
DefaultParams == ParamsOf("", DefaultLimit, FALSE, << >>, DefaultTsLimit, 0, << >>)

\* Table `alerts` with the given started_at per id.
TableOf(f) ==
    [id \in AlertIds |-> [auv_id |-> AuvOf(id), type |-> TypeOf(id), started_at |-> f[id]]]
Tables == {TableOf(f) : f \in [AlertIds -> Times]}

\* Alerts 40, 30, 20, 10 with started_at T3, T2, T2, T1 (later ids: the last
\* timestamp).
ExampleTable ==
    TableOf([id \in AlertIds |->
                IF id = 10 THEN 1 ELSE IF id \in {20, 30} THEN 2 ELSE MaxTime])

\* Cursor texts: none, well-formed ones, and malformed ones (no separator,
\* a first part that is no timestamp, a second part that is no integer).
GoodCursors == {EncodeCursor(t, 20) : t \in Times}
BadCursors ==
    {<<JunkTok>>, <<IsoTok(2)>>,
     <<JunkTok, SepTok, IntTok(20)>>,
     <<IsoTok(2), SepTok, JunkTok>>,
     <<IsoTok(2), SepTok, IntTok(20), SepTok, IntTok(20)>>}
Cursors == {<< >>} \cup GoodCursors \cup BadCursors

ModeNames == {"timeseries", "stats", "bogus"}
ModeLists == UNION {[1..n -> ModeNames] : n \in 0..MaxModes}

LimitInputs == {-1, 0, 1, 2, 20, 99, 100, 101, 500}
TsLimitInputs == {-1, 5, 9, 10, 11, 30, 1999, 2000, 2001, 5000}

\* No request is being served.
InsightsIdle ==
    /\ alerts_table = ExampleTable
    /\ insight_params = DefaultParams
    /\ given = DefaultParams
    /\ ipc = "idle"
    /\ modes = << >>
    /\ params = BuildParams(DefaultParams)
    /\ filters = << >>
    /\ rows = << >>
    /\ out = NoOut
    /\ queries = << >>
    /\ ncalls = 0

\* ------------------------------------------------------- the specifications
InitCommon ==
    /\ active_connections = << >>
    /\ lock = NoTask
    /\ waiters = << >>
    /\ client_state = [c \in Conns |-> "CONNECTING"]
    /\ application_state = [c \in Conns |-> "CONNECTING"]
    /\ received = [c \in Conns |-> << >>]
    /\ message = [t \in Tasks |-> 0]
    /\ idx = [t \in Tasks |-> 0]
    /\ disconnected = [t \in Tasks |-> << >>]
    /\ cleanup = [t \in Tasks |-> 0]
    /\ nmsgs = 0
    /\ msg = "NONE"
    /\ reconnect_delay = ReconnectDelay
    /\ sleep_delay = 0
    /\ phase = "running"
    /\ tracked = {}

\* The application after startup: lifespan has created the monitor_telemetry
\* task, which is at its first ws_connect; no client has connected yet.
Init ==
    /\ InitCommon
    /\ InsightsIdle
    /\ role = [t \in Tasks |-> IF t = Monitor THEN "monitor" ELSE "endpoint"]
    /\ pc = [t \in Tasks |-> IF t = Monitor THEN "ws_connect" ELSE "idle"]
    /\ ws = [t \in Tasks |-> IF t = Monitor THEN NoConn ELSE t]

Next ==
    \/ \E t \in Tasks : ManagerStep(t)
    \/ \E t \in Conns : EndpointStep(t)
    \/ MonitorStep
    \/ Shutdown
    \/ Teardown

Spec == Init /\ [][Next]_vars

\* The monitor task is scheduled whenever it can run: its timer fires and its
\* connection attempt ends.
FairSpec == Spec /\ WF_vars(MonitorStep)

\* A fresh ConnectionManager whose methods are called by any task, at any
\* time, with any WebSocket.
InitApi ==
    /\ InitCommon
    /\ InsightsIdle
    /\ role = [t \in Tasks |-> "api"]
    /\ pc = [t \in Tasks |-> "idle"]
    /\ ws = [t \in Tasks |-> NoConn]

NextApi ==
    \/ \E t \in Tasks : ManagerStep(t)
    \/ \E t \in Tasks, c \in Conns : ApiConnect(t, c)
    \/ \E t \in Tasks, c \in Conns : ApiDisconnect(t, c)
    \/ \E t \in Tasks : ApiBroadcast(t)
    \/ \E c \in Conns : ClientGone(c)

SpecApi == InitApi /\ [][NextApi]_vars

\* The registry and the tasks of main.py at rest, while requests are served.
MainIdle ==
    /\ InitCommon
    /\ role = [t \in Tasks |-> "api"]
    /\ pc = [t \in Tasks |-> "idle"]
    /\ ws = [t \in Tasks |-> NoConn]

\* One request with any listing inputs (limit, filters, cursor), with or
\* without summaries, on any table of alerts.
InitQuery ==
    /\ MainIdle
    /\ alerts_table \in Tables
    /\ insight_params \in
          {ParamsOf(a, l, FALSE, m, DefaultTsLimit, s, c) :
              a \in {"", "auv-1"}, l \in (0..MaxAlerts) \cup {500},
              m \in {<< >>, <<"stats", "timeseries">>}, s \in {0, 1}, c \in Cursors}
    /\ given = insight_params
    /\ ipc = "idle"
    /\ modes = << >>
    /\ params = BuildParams(DefaultParams)
    /\ filters = << >>
    /\ rows = << >>
    /\ out = NoOut
    /\ queries = << >>
    /\ ncalls = 0

NextQuery ==
    \/ FetchInsights
    \/ ListingDone
    \/ TimeseriesDone
    \/ StatsDone

SpecQuery == InitQuery /\ [][NextQuery]_vars

\* One InsightParams object with any limits and modes, used for up to
\* MaxCalls calls.
InitNormalize ==
    /\ MainIdle
    /\ alerts_table = ExampleTable
    /\ insight_params \in
          {ParamsOf(a, l, b, m, tl, 0, << >>) :
              a \in {"", "auv-1"}, l \in LimitInputs, b \in BOOLEAN,
              m \in ModeLists, tl \in TsLimitInputs}
    /\ given = insight_params
    /\ ipc = "idle"
    /\ modes = << >>
    /\ params = BuildParams(DefaultParams)
    /\ filters = << >>
    /\ rows = << >>
    /\ out = NoOut
    /\ queries = << >>
    /\ ncalls = 0

NextNormalize ==
    \/ FetchInsights
    \/ FetchInsightsAgain
    \/ ListingDone
    \/ TimeseriesDone
    \/ StatsDone

SpecNormalize == InitNormalize /\ [][NextNormalize]_vars

\* ------------------------------------------------------------ the claims
Without(s, x) == SelectSeq(s, LAMBDA y : y # x)
Increasing(s) == \A i, j \in 1..Len(s) : i < j => s[i] < s[j]

\* The for loop of t's broadcast ends in this step (the call returns or goes
\* on to its clean-up loop) after an await, or in the step of the call when
\* that step enters the clean-up loop.
LoopEnds(t) ==
    /\ pc'[t] \notin {"broadcast_lock", "send", "cancelled"}
    /\ \/ pc[t] \in {"broadcast_lock", "send"}
       \/ nmsgs' # nmsgs /\ cleanup'[t] = 1

\* The message of the broadcast whose loop ends in this step.
LoopMessage(t) == IF pc[t] \in {"broadcast_lock", "send"} THEN message[t] ELSE nmsgs'

\* A broadcast is called and returns in the same step: nothing was awaited.
ReturnsAtOnce == nmsgs' # nmsgs /\ pc' = pc

\* Task t's broadcast has sent to a registry of two subscribers, of which one
\* failed and the other was delivered the message.
OneFailedOneDelivered(t) ==
    /\ message[t] # 0
    /\ Len(active_connections) = 2
    /\ idx[t] > Len(active_connections)
    /\ Len(disconnected[t]) = 1
    /\ \E c \in Range(active_connections) :
          /\ ~InSeq(c, disconnected[t])
          /\ InSeq(message[t], received[c])

\* C1: a broadcast to one failing and one healthy subscriber completes (and
\* has then removed the failing subscriber): having delivered to the healthy
\* one and collected the failing one, it is never left waiting for the
\* registry lock that it holds itself.
C1_BroadcastCompletes ==
    \A t \in Tasks : OneFailedOneDelivered(t) => ~(lock = t /\ InSeq(t, waiters))

\* C2: while a send of a broadcast has not completed, connect and disconnect
\* calls of other tasks make progress: none of them is queued for the
\* registry lock.
C2_NoBlocking ==
    \A t \in Tasks : pc[t] = "send" => waiters = << >>

C4_DisconnectRemovesOnlyConn ==
    /\ [](\A t \in Tasks : pc[t] = "send" => active_connections[idx[t]] \in tracked)
    /\ [][/\ \A t \in Tasks :
                (pc[t] = "disconnect_lock" /\ pc'[t] # "disconnect_lock") =>
                    /\ ~InSeq(ws[t], active_connections')
                    /\ active_connections' = Without(active_connections, ws[t])
          /\ \A c \in Conns :
                (c \in tracked /\ c \notin tracked') =>
                    /\ ~InSeq(c, active_connections')
                    /\ active_connections' = Without(active_connections, c)
          /\ \A c \in Conns : received'[c] # received[c] => c \in tracked]_vars

\* A connection that was registered (a message reached it) has been
\* disconnected, and a later broadcast has reached another subscriber, which
\* is still registered, and not the disconnected one.
C4_Witness ==
    \E c \in Conns, d \in Conns :
        /\ c # d
        /\ received[c] # << >>
        /\ ~InSeq(c, active_connections)
        /\ InSeq(d, active_connections)
        /\ Len(received[d]) > Len(received[c])

\* C5: in one broadcast call every registered subscriber in state CONNECTED
\* is sent the message (it is delivered, or the failed send is recorded in
\* `disconnected`), none of them twice, whether or not another send failed.
C5_EveryConnectedOnce ==
    /\ [](\A c \in Conns :
            /\ \A m \in 1..nmsgs : Count(m, received[c]) <= 1
            /\ \A t \in Tasks :
                 /\ Count(c, disconnected[t]) <= 1
                 /\ ~(InSeq(c, disconnected[t]) /\ InSeq(message[t], received[c])))
    /\ [][/\ \A t \in Tasks : LoopEnds(t) =>
                \A c \in Range(active_connections') :
                    client_state'[c] = "CONNECTED" =>
                        \/ InSeq(LoopMessage(t), received'[c])
                        \/ InSeq(c, disconnected'[t])
          /\ ReturnsAtOnce =>
                \A c \in Range(active_connections') : client_state'[c] # "CONNECTED"]_vars

\* The send to the first subscriber failed and the message was then delivered
\* to the second.
C5_Witness ==
    \E t \in Tasks :
        /\ Len(active_connections) = 2
        /\ disconnected[t] = <<active_connections[1]>>
        /\ message[t] # 0
        /\ InSeq(message[t], received[active_connections[2]])

\* C6: a registered subscriber that broadcast finds in state DISCONNECTED
\* is removed by it: when a broadcast has returned, every registered
\* subscriber in state DISCONNECTED is one the call delivered to (it was
\* still connected when the loop reached it).
C6_DisconnectedRemoved ==
    [][/\ \A t \in Tasks : (LoopEnds(t) /\ cleanup'[t] = 0) =>
              \A c \in Range(active_connections') :
                  client_state'[c] = "DISCONNECTED" => InSeq(LoopMessage(t), received'[c])
       /\ ReturnsAtOnce =>
              \A c \in Range(active_connections') : client_state'[c] # "DISCONNECTED"]_vars

\* C7: every subscriber receives the messages in the order of the broadcast
\* calls (messages are numbered in call order).
C7_Fifo ==
    \A c \in Conns : Increasing(received[c])

\* A subscriber has the first message and is being sent the second, by a
\* broadcast that was called while another task's call was in progress.
C7_Witness ==
    \E c \in Conns, t \in Tasks :
        /\ received[c] = <<1>>
        /\ pc[t] = "send"
        /\ message[t] = 2
        /\ active_connections[idx[t]] = c
        /\ \E u \in Tasks \ {t} : pc[u] \in {"connect_lock", "disconnect_lock"}

InIteration == pc[Monitor] \in {"ws_connect", "read", "broadcast_lock", "send", "disconnect_lock"}

\* C8: every end of a connection iteration leads to the wait of
\* reconnect_delay, which is always the same 5 seconds, and the wait leads to
\* a new connection attempt (unless the task is cancelled); while no attempt
\* succeeds and the process runs, attempts recur for ever.
C8_Reconnects ==
    /\ [](pc[Monitor] = "sleep" => sleep_delay = ReconnectDelay)
    /\ [][/\ reconnect_delay' = reconnect_delay
          /\ (InIteration /\ ~InIteration') => pc'[Monitor] \in {"sleep", "cancelled"}
          /\ (pc[Monitor] = "sleep" /\ pc'[Monitor] # "sleep") =>
                 pc'[Monitor] \in {"ws_connect", "cancelled"}]_vars
    /\ (pc[Monitor] = "sleep") ~> (pc[Monitor] \in {"ws_connect", "cancelled"})
    /\ ([](pc[Monitor] \in {"ws_connect", "sleep"})) => []<>(pc[Monitor] = "ws_connect")

\* A new connection attempt is under way after an iteration that ended
\* (error frame, close, end of the feed or exception).
C8_Witness ==
    /\ pc[Monitor] = "ws_connect"
    /\ msg \in {"ERROR", "CLOSED", "END", "RAISED"}

\* C9: once shutdown has begun, the ingestion loop starts no connection
\* attempt.
C9_NoAttemptAfterShutdown ==
    [][phase # "running" =>
          ~(pc[Monitor] # "ws_connect" /\ pc'[Monitor] = "ws_connect")]_vars

\* C10: a text frame that fails to parse leaves the loop awaiting the next
\* frame of the same connection: no broadcast call is made, nothing is
\* delivered and no reconnect wait starts.
C10_BadFrameSkipped ==
    [][(pc[Monitor] = "read" /\ msg' = "TEXT_BAD" /\ phase' = phase) =>
          /\ pc'[Monitor] = "read"
          /\ nmsgs' = nmsgs
          /\ received' = received
          /\ sleep_delay' = sleep_delay]_vars

\* An unparseable text frame was read and the loop awaits the next frame.
C10_Witness ==
    /\ pc[Monitor] = "read"
    /\ msg = "TEXT_BAD"

\* ---------------------------------------------- the claims: fetch_insights
\* The listing of the current call has been processed / the call is over.
PastListing == ipc \in {"timeseries", "stats", "returned", "raised"}
Finished == ipc \in {"returned", "raised"}

\* rs is the first min(L, |M|) alerts of M in (started_at DESC, id DESC) order.
PageOf(rs, M, L) ==
    /\ Range(rs) \subseteq M
    /\ Len(rs) = Min2(L, Cardinality(M))
    /\ \A i, j \in 1..Len(rs) : i < j => Before(alerts_table, rs[i], rs[j])
    /\ \A x \in M \ Range(rs) : \A i \in 1..Len(rs) : Before(alerts_table, rs[i], x)

\* The cursor text decodes to the pair (started_at, id) of alert `id`.
DecodesTo(cursor, id) ==
    /\ CursorParses(cursor)
    /\ CursorTime(cursor) = alerts_table[id].started_at
    /\ CursorId(cursor) = id

\* C11: the listing returns the first min(L, matching) matching alerts in
\* (started_at DESC, id DESC) order; a page of exactly L rows carries a
\* next_cursor that decodes to (started_at, id) of its last row, a shorter
\* page carries none; alerts [T3,T2,T2,T1] with ids [40,30,20,10] and limit 3
\* give ids [40,30,20] and a cursor decoding to (T2, 20).
C11_ListingPage ==
    PastListing =>
        /\ ipc # "raised"
        /\ PageOf(rows, Matching(alerts_table, filters, params), ClampLimit(given.limit))
        /\ Len(out.alerts) = Len(rows)
        /\ IF Len(rows) = ClampLimit(given.limit)
           THEN DecodesTo(out.next_cursor, rows[Len(rows)])
           ELSE out.next_cursor = << >>
        /\ (alerts_table = ExampleTable /\ given.limit = 3 /\ filters = << >>) =>
               /\ SubSeq(rows, 1, 3) = <<40, 30, 20>>
               /\ out.next_cursor = EncodeCursor(2, 20)

\* The request that follows a page: the same request with the page's cursor.
FollowUp(cursor) == [insight_params EXCEPT !.cursor = cursor]

\* C12: a traversal that starts without cursor goes on through every
\* matching alert: a first page that leaves matching alerts unlisted has
\* returned a next_cursor, and the same request with that cursor lists the
\* alerts that come next in (started_at DESC, id DESC) order, none skipped
\* and none repeated; a page without next_cursor ends the traversal.
C12_TraversalCoversAll ==
    (given.cursor = << >> /\ Finished) =>
        LET M == Matching(alerts_table, filters, params)
            L == ClampLimit(given.limit)
        IN /\ ipc = "returned"
           /\ out.next_cursor = << >> => Range(rows) = M
           /\ out.next_cursor # << >> =>
                 LET nxt == FollowUp(out.next_cursor)
                     page == Listing(alerts_table, BuildFilters(nxt), BuildParams(nxt))
                 IN /\ Range(page) \cap Range(rows) = {}
                    /\ rows \o page = SubSeq(OrderDesc(alerts_table, M), 1,
                                             Min2(2 * L, Cardinality(M)))

\* The request without its cursor.
NoCursor(ip) == [ip EXCEPT !.cursor = << >>]

\* C13: a malformed cursor is treated as absent: the call raises no error,
\* the cursor contributes no predicate and no bind parameter, and the alerts
\* returned are those of the same request without cursor.
C13_BadCursorAbsent ==
    (given.cursor \in BadCursors /\ Finished) =>
        /\ ipc = "returned"
        /\ ~InSeq("cursor", filters)
        /\ params.cursor_started_at = 0 /\ params.cursor_id = 0
        /\ rows = Listing(alerts_table, BuildFilters(NoCursor(given)),
                          [BuildParams(NoCursor(given)) EXCEPT !.limit = ClampLimit(@)])
        /\ Len(out.alerts) = Len(rows)

\* x clamped into [lo, hi], case by case.
Clamped(x, lo, hi) == IF x < lo THEN lo ELSE IF x > hi THEN hi ELSE x

\* C14: the alert query is bounded by the client's limit clamped into
\* [1, 100] and the telemetry query by the client's timeseries_limit clamped
\* into [10, 2000]: 500 gives 100, 0 gives 1, timeseries_limit 5 gives 10,
\* and a value inside the bounds is used as it is.
C14_LimitsClamped ==
    /\ \A i \in 1..Len(queries) :
          /\ (i = 1) =>
                /\ queries[i].table = "alerts"
                /\ queries[i].limit = Clamped(given.limit, 1, 100)
                /\ queries[i].limit \in 1..100
                /\ given.limit = 500 => queries[i].limit = 100
                /\ given.limit = 0 => queries[i].limit = 1
                /\ given.limit \in 1..100 => queries[i].limit = given.limit
          /\ queries[i].table = "telemetry" =>
                /\ queries[i].limit = Clamped(given.timeseries_limit, 10, 2000)
                /\ queries[i].limit \in 10..2000
                /\ given.timeseries_limit = 5 => queries[i].limit = 10
                /\ given.timeseries_limit \in 10..2000 =>
                       queries[i].limit = given.timeseries_limit
    /\ PastListing => Len(rows) <= Clamped(given.limit, 1, 100)
    /\ PastListing => out.ts_count <= Clamped(given.timeseries_limit, 10, 2000)

\* Both queries were made with a limit that the clamp changed: limit 500 and
\* timeseries_limit 5.
C14_Witness ==
    /\ given.limit = 500
    /\ given.timeseries_limit = 5
    /\ Len(queries) >= 2
    /\ queries[1] = [table |-> "alerts", limit |-> 100]
    /\ queries[2] = [table |-> "telemetry", limit |-> 10]

\* Position of the first occurrence of m in the list ms.
FirstAt(m, ms) == CHOOSE i \in 1..Len(ms) : ms[i] = m /\ \A j \in 1..(i - 1) : ms[j] # m

\* C15: the active modes are [timeseries] when summary is set and no mode
\* list is given; otherwise the allowed modes of the client's list, each
\* once, in the order of their first occurrence.  There are never duplicates
\* or unknown modes, and [stats, timeseries, bogus] with summary = false gives
\* [stats, timeseries].
C15_ActiveModes ==
    ipc # "idle" =>
        /\ \A i, j \in 1..Len(modes) : i # j => modes[i] # modes[j]
        /\ Range(modes) \subseteq {"timeseries", "stats"}
        /\ (given.summary /\ given.summary_modes = << >>) => modes = <<"timeseries">>
        /\ ~(given.summary /\ given.summary_modes = << >>) =>
              /\ Range(modes) = Range(given.summary_modes) \cap {"timeseries", "stats"}
              /\ \A i, j \in 1..Len(modes) :
                    i < j => FirstAt(modes[i], given.summary_modes)
                                < FirstAt(modes[j], given.summary_modes)
        /\ (~given.summary /\ given.summary_modes = <<"stats", "timeseries", "bogus">>) =>
              modes = <<"stats", "timeseries">>

\* The request [stats, timeseries, bogus] with summary = false has been
\* normalised.
C15_Witness ==
    /\ ipc # "idle"
    /\ ~given.summary
    /\ given.summary_modes = <<"stats", "timeseries", "bogus">>
    /\ modes = <<"stats", "timeseries">>

\* C16: with mode timeseries active and no vehicle filter the call does not
\* fail: it returns the alert listing, its summaries hold timeseries_error
\* and not timeseries, no telemetry query was made, and stats is computed
\* when it is active.
C16_TimeseriesErrorOnly ==
    (InSeq("timeseries", modes) /\ given.auv_id = "" /\ Finished) =>
        /\ ipc = "returned"
        /\ Len(out.alerts) = Len(rows)
        /\ out.has_summaries
        /\ "timeseries_error" \in out.summaries
        /\ "timeseries" \notin out.summaries
        /\ \A i \in 1..Len(queries) : queries[i].table # "telemetry"
        /\ InSeq("stats", modes) => "stats" \in out.summaries

\* C20: fetch_insights leaves the caller's params object as it was given:
\* every field, limit and timeseries_limit included, keeps its value.
C20_ParamsUntouched ==
    insight_params = given

\* ------------------------------------- the claims: handlers and feed frames
\* C17: a subscriber whose handler has ended (client disconnect, or an
\* unexpected error, after which the connection is closed with code 1011) is
\* no longer in the registry; a handler that answers a decode failure with
\* the error reply still has its subscriber registered.
C17_EndedHandlerRemoved ==
    \A c \in Conns :
        /\ pc[c] = "done" => ~InSeq(c, active_connections)
        /\ pc[c] = "error_reply" => InSeq(c, active_connections)

\* C18: a send failure in a broadcast leaves the pipeline running: the lock
\* is not held for ever, that is, no task is queued for the registry lock
\* while it holds that lock, and the ingestion loop is not stuck in the
\* clean-up of its broadcast.
C18_LockNotHeldForever ==
    /\ \A t \in Tasks : lock = t => ~InSeq(t, waiters)
    /\ ~(pc[Monitor] = "disconnect_lock" /\ lock = Monitor)

\* C19 (as stated): every non-text frame read from the feed, binary, error
\* or closed, ends the connection iteration: the loop goes to its reconnect
\* wait.
C19_NonTextEnds ==
    [][(pc[Monitor] = "read" /\ msg' # msg /\ msg' \in {"BINARY", "ERROR", "CLOSED"}) =>
          pc'[Monitor] = "sleep"]_vars

\* C19 (amended): an error frame, a closed frame, the end of the feed or an
\* exception ends the connection iteration, and the reconnect wait of
\* reconnect_delay follows; text frames and frames of any other type
\* (binary) keep the iteration going.
C19_ErrorOrClosedEnds ==
    [][pc[Monitor] = "read" =>
          /\ pc'[Monitor] = "sleep" =>
                /\ msg' \in {"ERROR", "CLOSED", "END", "RAISED"}
                /\ sleep_delay' = ReconnectDelay
          /\ (pc'[Monitor] = "read" /\ msg' # msg) =>
                msg' \in {"TEXT_ALERT", "TEXT_QUIET", "TEXT_BAD", "BINARY"}
          /\ pc'[Monitor] \in {"broadcast_lock", "send", "disconnect_lock"} =>
                msg' = "TEXT_ALERT"]_vars

\* A binary frame was read and the loop awaits the next frame of the same
\* connection.
C19_Witness ==
    /\ pc[Monitor] = "read"
    /\ msg = "BINARY"
====
